---- MODULE Spec2Model ----
(***************************************************************************)
(* Model of the tti library core: the Parabolic SAR indicator              *)
(* (tti/indicators/_parabolic_sar.py), the walk-forward signal replay and  *)
(* the feature/label assembly of MachineLearningData                       *)
(* (tti/ml/_machine_learning_data.py).                                     *)
(*                                                                         *)
(* Conventions.  Python positions are 0-based, sequences here are 1-based: *)
(* python row i is element i+1.  Timestamps are the strictly increasing    *)
(* integers 1..N, carried in the field ts.  Prices are integers; af, ep    *)
(* and sar are fixed-point numbers: af in hundredths, ep and sar in units  *)
(* of 1/Scale.  The SAR recurrence is exact in these units for every       *)
(* series of at most 6 rows; on longer series it is truncated to 1/Scale,  *)
(* far below the distance between a sar value and any price it is          *)
(* compared with.                                                          *)
(***************************************************************************)
EXTENDS Integers, Sequences, FiniteSets, TLC

\* ------------------------------------------------------------------ bounds
MaxLen == 4
MaxPrice == 3
MaxWarmup == 1
MaxRows == 3
MaxClose == 2
MaxTi == 2
MaxPool == 2
MaxRise == 11
MaxDip == 2
MaxExtra == 2
MaxTail == 3
MaxBars == 11
MaxTwinLen == 3
MaxPeriod == 3

\* --------------------------------------------------------------- constants
AfIncrease == 2
AfMax == 20
RoundDigits == 4
Scale == 100 * (10 ^ RoundDigits)
RoundUnit == Scale \div (10 ^ RoundDigits)
HOLD == 0
BUY == -1
SELL == 1
UP == 1
DOWN == 0
SarFloor == 2
RsiFloor == 2
RsiOverbought == 70
RsiOversold == 30
MomFloor == 9
EmaSpan == 9
EmaMinPeriods == 9
CoFloor == 90
CoMaWindow == 90
TemaFloor == 1
VrcFloor == 3
SarMinRows == 2
CoMinRows == 10
MomSignalWindow == 9

\* a stand-alone indicator and the walk-forward replay over it
VARIABLES input, warmup, sar_frame, ti, full_input_data, full_ti_data, signals,
          wi, pc

\* a MachineLearningData object, its worker pool and its results
VARIABLES ml_input, ti_features, arg_types, ti_signals, ctor_fails, task_fails,
          include_close_feature, include_volume_feature, price_diff_periods,
          pool_size, indicators_set, ml_data, tasks, results, done_order,
          features_values, features, raised, returned, exported, mlpc

varsSar == <<input, warmup, sar_frame, ti, full_input_data, full_ti_data, signals,
            wi, pc>>
varsML == <<ml_input, ti_features, arg_types, ti_signals, ctor_fails, task_fails,
            include_close_feature, include_volume_feature, price_diff_periods,
            pool_size, indicators_set, ml_data, tasks, results, done_order,
            features_values, features, raised, returned, exported, mlpc>>

\* an indicator of any formula and the signal asked of it
VARIABLES formula, indicator, sig, sigpc

varsSig == <<formula, indicator, sig, sigpc>>

\* one indicator of any class under construction: the class, the input
\* series, the parameters, and what _calculateTi raised or returned
VARIABLES ti_class, ti_input, ti_params, ti_result, tipc

varsTi == <<ti_class, ti_input, ti_params, ti_result, tipc>>

\* a second ParabolicSAR object built on the same input, and the walk-forward
\* replay over it
VARIABLES twin_ti, twin_full_input_data, twin_full_ti_data, twin_signals,
          twin_wi, twin_pc

varsTwin == <<twin_ti, twin_full_input_data, twin_full_ti_data, twin_signals,
             twin_wi, twin_pc>>
vars == <<varsSar, varsML, varsSig, varsTi, varsTwin>>

\* ----------------------------------------------------------------- helpers
Min2(a, b) == IF a <= b THEN a ELSE b
Max2(a, b) == IF a >= b THEN a ELSE b

SetMax(S) == CHOOSE m \in S : \A x \in S : x <= m
SetMin(S) == CHOOSE m \in S : \A x \in S : m <= x

\* series.iloc[a:b].max() / .min() of a column, python slice [a, b) given here
\* as the 1-based inclusive range lo..hi
HighMax(inp, lo, hi) == SetMax({inp[j].high * Scale : j \in lo..hi})
LowMin(inp, lo, hi) == SetMin({inp[j].low * Scale : j \in lo..hi})

\* one input row per timestamp, a price bar: low <= close <= high
RowVals == {r \in [high : 1..MaxPrice, low : 1..MaxPrice, close : 1..MaxPrice] :
              r.low <= r.close /\ r.close <= r.high}

InputSeries(n) == {[j \in 1..n |-> [ts |-> j, high |-> f[j].high, low |-> f[j].low,
                                     close |-> f[j].close]] : f \in [1..n -> RowVals]}

AllInputs == UNION {InputSeries(n) : n \in 1..MaxLen}

\* longer series whose highs rise by one per row; the low is the high, but
\* for three rows where it lies up to MaxDip below it
Dips(n) ==
    {[j \in 1..n |-> IF j = p[1] THEN v[1] ELSE IF j = p[2] THEN v[2]
                     ELSE IF j = p[3] THEN v[3] ELSE 0] :
       p \in {q \in [1..3 -> 1..n] : q[1] < q[2] /\ q[2] < q[3]},
       v \in [1..3 -> 0..MaxDip]}

RisingSeries(n) ==
    {[j \in 1..n |-> [ts |-> j, high |-> MaxDip + j, low |-> MaxDip + j - d[j],
                      close |-> MaxDip + j]] : d \in Dips(n)}

\* the shortest rising series: 10 periods
RisePeriods == MaxRise - 1

RisingInputs == UNION {RisingSeries(n) : n \in RisePeriods..MaxRise}

\* a rise of RisePeriods rows, only the first low set back, and then two
\* bars at the bottom of the price range
PeakInputs ==
    {[j \in 1..(RisePeriods + 2) |->
        IF j = 1 THEN [ts |-> j, high |-> MaxDip + j, low |-> MaxDip + j - d,
                       close |-> MaxDip + j]
        ELSE IF j <= RisePeriods
        THEN [ts |-> j, high |-> MaxDip + j, low |-> MaxDip + j,
              close |-> MaxDip + j]
        ELSE [ts |-> j, high |-> b[j - RisePeriods].high,
              low |-> b[j - RisePeriods].low,
              close |-> b[j - RisePeriods].close]] :
       d \in 0..MaxDip, b \in [1..2 -> RowVals]}

\* ------------------------------------------------- ParabolicSAR._calculateSarRow
\* ci is the 1-based current row, psi the 1-based row where the position began.
\* Returns [row |-> [af, ep, sar, position], psi |-> position start row].
\* an initial guess taken from the last high instead of the second one
SarFirstRowLast(inp) ==
    IF inp[Len(inp)].high > inp[1].high
    THEN [af |-> AfIncrease, ep |-> inp[1].high * Scale,
          sar |-> inp[1].low * Scale, position |-> "LONG"]
    ELSE [af |-> AfIncrease, ep |-> inp[1].low * Scale,
          sar |-> inp[1].high * Scale, position |-> "SHORT"]

SarFirstRow(inp) ==
    IF inp[2].high > inp[1].high
    THEN [af |-> AfIncrease, ep |-> inp[1].high * Scale,
          sar |-> inp[1].low * Scale, position |-> "LONG"]
    ELSE [af |-> AfIncrease, ep |-> inp[1].low * Scale,
          sar |-> inp[1].high * Scale, position |-> "SHORT"]

\* a re-initialisation that also looks at the row of the flip
SarFlipRowInclusive(inp, ci, psi, previous_sar) ==
    IF previous_sar.position = "LONG"
    THEN [af |-> AfIncrease, ep |-> inp[ci].low * Scale,
          sar |-> HighMax(inp, psi, ci), position |-> "SHORT"]
    ELSE [af |-> AfIncrease, ep |-> inp[ci].high * Scale,
          sar |-> LowMin(inp, psi, ci), position |-> "LONG"]

SarFlipRow(inp, ci, psi, previous_sar) ==
    IF previous_sar.position = "LONG"
    THEN [af |-> AfIncrease, ep |-> inp[ci].low * Scale,
          sar |-> HighMax(inp, psi, ci - 1), position |-> "SHORT"]
    ELSE [af |-> AfIncrease, ep |-> inp[ci].high * Scale,
          sar |-> LowMin(inp, psi, ci - 1), position |-> "LONG"]

\* an extreme price taken over the whole series, not since the position began
SarExtremeAllRows(inp, ci, psi, previous_sar) ==
    IF previous_sar.position = "LONG"
    THEN HighMax(inp, 1, ci)
    ELSE LowMin(inp, 1, ci)

SarExtreme(inp, ci, psi, previous_sar) ==
    IF previous_sar.position = "LONG"
    THEN HighMax(inp, psi, ci)
    ELSE LowMin(inp, psi, ci)

\* an acceleration factor that grows without limit
SarAfUncapped(ep, previous_sar) ==
    IF previous_sar.position = "LONG" /\ ep > previous_sar.ep
    THEN previous_sar.af + AfIncrease
    ELSE IF previous_sar.position = "SHORT" /\ ep < previous_sar.ep
    THEN previous_sar.af + AfIncrease
    ELSE previous_sar.af

SarAf(ep, previous_sar) ==
    IF previous_sar.position = "LONG" /\ ep > previous_sar.ep
    THEN Min2(AfMax, previous_sar.af + AfIncrease)
    ELSE IF previous_sar.position = "SHORT" /\ ep < previous_sar.ep
    THEN Min2(AfMax, previous_sar.af + AfIncrease)
    ELSE previous_sar.af

\* the recurrence alone, not kept behind the two prior bars
SarValueRaw(inp, ci, previous_sar) ==
    previous_sar.sar +
    (previous_sar.af * (previous_sar.ep - previous_sar.sar)) \div 100

\* previous sar + previous af * (previous ep - previous sar), then kept on the
\* stop side of the two prior lows (LONG) or highs (SHORT)
SarValue(inp, ci, previous_sar) ==
    LET raw == previous_sar.sar +
               (previous_sar.af * (previous_sar.ep - previous_sar.sar)) \div 100
    IN  IF previous_sar.position = "LONG"
        THEN Min2(raw, LowMin(inp, Max2(1, ci - 2), ci - 1))
        ELSE Max2(raw, HighMax(inp, Max2(1, ci - 2), ci - 1))

\* a position check that never leaves a LONG position
SarFlipsShortOnly(inp, ci, sar, previous_sar) ==
    previous_sar.position = "SHORT" /\ inp[ci].high * Scale > sar

\* a position check that never leaves a SHORT position
SarFlipsLongOnly(inp, ci, sar, previous_sar) ==
    previous_sar.position = "LONG" /\ inp[ci].low * Scale < sar

SarFlips(inp, ci, sar, previous_sar) ==
    \/ previous_sar.position = "SHORT" /\ inp[ci].high * Scale > sar
    \/ previous_sar.position = "LONG" /\ inp[ci].low * Scale < sar

\* a re-entry that tests the re-initialised row for a flip once more
calculateSarRowRetest(inp, ci, psi, previous_sar) ==
    LET row == SarFlipRow(inp, ci, psi, previous_sar)
    IN  IF ci = 1
        THEN [row |-> SarFirstRow(inp), psi |-> ci, calls |-> 1]
        ELSE IF SarFlips(inp, ci, row.sar, row)
        THEN [row |-> row, psi |-> ci, calls |-> 2]
        ELSE [row |-> row, psi |-> ci, calls |-> 1]

\* _calculateSarRow entered with position_changed = True: the first-row and
\* the position_changed branches both return before the flip test. calls is
\* the number of times _calculateSarRow was entered.
calculateSarRowChanged(inp, ci, psi, previous_sar) ==
    IF ci = 1
    THEN [row |-> SarFirstRow(inp), psi |-> ci, calls |-> 1]
    ELSE [row |-> SarFlipRow(inp, ci, psi, previous_sar), psi |-> ci, calls |-> 1]

\* _calculateSarRow entered with position_changed = False
calculateSarRow(inp, ci, psi, previous_sar) ==
    IF ci = 1
    THEN [row |-> SarFirstRow(inp), psi |-> ci, calls |-> 1]
    ELSE LET ep == SarExtreme(inp, ci, psi, previous_sar)
             af == SarAf(ep, previous_sar)
             sar == SarValue(inp, ci, previous_sar)
         IN  IF SarFlips(inp, ci, sar, previous_sar)
             THEN LET again == calculateSarRowChanged(inp, ci, psi, previous_sar)
                  IN  [row |-> again.row, psi |-> again.psi,
                       calls |-> 1 + again.calls]
             ELSE [row |-> [af |-> af, ep |-> ep, sar |-> sar,
                            position |-> previous_sar.position],
                   psi |-> psi, calls |-> 1]

\* the frame before the loop of _calculateTi
NoFrame == [rows |-> <<>>, psi |-> 1, starts |-> <<>>, calls |-> <<>>]

\* the loop of _calculateTi: rows 1..n of the af/ep/sar/position frame, the
\* position start index, the value it had after each row, and the number of
\* times _calculateSarRow was entered for each row
RECURSIVE SarFrame(_, _)
SarFrame(inp, n) ==
    IF n = 0 THEN NoFrame
    ELSE LET before == SarFrame(inp, n - 1)
             prev == IF n = 1 THEN [af |-> 0, ep |-> 0, sar |-> 0, position |-> "NONE"]
                     ELSE before.rows[n - 1]
             r == calculateSarRow(inp, n, before.psi, prev)
         IN  [rows |-> Append(before.rows, r.row), psi |-> r.psi,
              starts |-> Append(before.starts, r.psi),
              calls |-> Append(before.calls, r.calls)]

\* DataFrame.round(4): nearest multiple of 10^-4, ties to the even multiple
Round4(x) ==
    LET q == x \div RoundUnit
        r == x % RoundUnit
    IN  IF 2 * r < RoundUnit THEN q * RoundUnit
        ELSE IF 2 * r > RoundUnit THEN (q + 1) * RoundUnit
        ELSE IF q % 2 = 0 THEN q * RoundUnit ELSE (q + 1) * RoundUnit

\* ParabolicSAR._calculateTi: raises NotEnoughInputData or returns the rounded
\* sar column
calculateTi(inp) ==
    IF Len(inp) < SarMinRows
    THEN [raised |-> "NotEnoughInputData", frame |-> NoFrame, data |-> <<>>]
    ELSE LET sar == SarFrame(inp, Len(inp))
         IN  [raised |-> "none", frame |-> sar,
              data |-> [j \in 1..Len(inp) |->
                          [ts |-> inp[j].ts, sar |-> Round4(sar.rows[j].sar)]]]

\* ------------------------------------------------------------ float values
\* float('nan'), the undefined value of a warm-up row: a value no price and no
\* indicator value takes
NaN == -(2 ^ 30)

\* a comparison that takes NaN for a number
GtPlain(a, b) == a > b

\* a > b and a < b on floats: False as soon as one side is NaN
Gt(a, b) == a # NaN /\ b # NaN /\ a > b

Lt(a, b) == Gt(b, a)

\* ---------------------------------------------------- ParabolicSAR.getTiSignal
\* reads the two last rows (iat[-2], iat[-1]) of the installed views
getTiSignal(inst) ==
    LET n == Len(inst.ti_data)
        m == Len(inst.input_data)
    IN  IF n < 2 THEN HOLD
        ELSE IF Gt(inst.input_data[m - 1].close * Scale, inst.ti_data[n - 1].sar)
                /\ Lt(inst.input_data[m].close * Scale, inst.ti_data[n].sar)
        THEN BUY
        ELSE IF Lt(inst.input_data[m - 1].close * Scale, inst.ti_data[n - 1].sar)
                /\ Gt(inst.input_data[m].close * Scale, inst.ti_data[n].sar)
        THEN SELL
        ELSE HOLD

\* a truncation that lets one later row through
UpToLate(frame, t) == SelectSeq(frame, LAMBDA r : r.ts <= t + 1)

\* frame[frame.index <= t]
UpTo(frame, t) == SelectSeq(frame, LAMBDA r : r.ts <= t)

\* a TiData that leaves out its first w warm-up rows
DropHead(frame, w) == SubSeq(frame, w + 1, Len(frame))

NoInstance == [input_data |-> <<>>, ti_data |-> <<>>]

\* ------------------------------------------------------------------ actions
\* ParabolicSAR(input_data): store the input, compute and store TiData
Construct ==
    /\ pc = "new"
    /\ LET res == calculateTi(input)
       IN  IF res.raised # "none"
           THEN /\ pc' = res.raised
                /\ ti' = ti
                /\ sar_frame' = sar_frame
           ELSE /\ pc' = "constructed"
                /\ sar_frame' = res.frame
                /\ ti' = [input_data |-> input,
                          ti_data |-> DropHead(res.data, warmup)]
    /\ UNCHANGED <<input, warmup, full_input_data, full_ti_data, signals, wi>>
    /\ UNCHANGED <<varsML, varsSig, varsTi, varsTwin>>

\* a signals column allocated without being filled
UnsetSignals(n) == [j \in 1..n |-> 2]

\* np.zeros(shape=(n, 1), dtype=np.int)
ZeroSignals(n) == [j \in 1..n |-> 0]

\* _getSignalsSequence, up to the loop: zeroed signals, full frames remembered
WalkStart ==
    /\ pc = "constructed"
    /\ signals' = ZeroSignals(Len(input))
    /\ full_ti_data' = ti.ti_data
    /\ full_input_data' = ti.input_data
    /\ wi' = 0
    /\ pc' = "walking"
    /\ UNCHANGED <<input, warmup, sar_frame, ti>>
    /\ UNCHANGED <<varsML, varsSig, varsTi, varsTwin>>

\* one pass of the loop body for python i = wi, i.e. row wi + 1
WalkStep ==
    /\ pc = "walking"
    /\ wi < Len(full_ti_data)
    /\ LET i == wi + 1
           view == [input_data |-> UpTo(full_input_data, full_input_data[i].ts),
                    ti_data |-> UpTo(full_ti_data, full_ti_data[i].ts)]
       IN  /\ ti' = view
           /\ signals' = [signals EXCEPT ![i] = getTiSignal(view)]
           /\ wi' = i
    /\ UNCHANGED <<input, warmup, sar_frame, full_input_data, full_ti_data, pc>>
    /\ UNCHANGED <<varsML, varsSig, varsTi, varsTwin>>

WalkReturn ==
    /\ pc = "walking"
    /\ wi = Len(full_ti_data)
    /\ pc' = "returned"
    /\ UNCHANGED <<input, warmup, sar_frame, ti, full_input_data, full_ti_data,
                   signals, wi>>
    /\ UNCHANGED <<varsML, varsSig, varsTi, varsTwin>>

\* ----------------------------------------------- the second object's actions
\* ParabolicSAR(input_data) once more, on the same input
TwinConstruct ==
    /\ twin_pc = "new"
    /\ LET res == calculateTi(input)
       IN  IF res.raised # "none"
           THEN /\ twin_pc' = res.raised
                /\ twin_ti' = twin_ti
           ELSE /\ twin_pc' = "constructed"
                /\ twin_ti' = [input_data |-> input,
                               ti_data |-> DropHead(res.data, warmup)]
    /\ UNCHANGED <<twin_full_input_data, twin_full_ti_data, twin_signals, twin_wi>>
    /\ UNCHANGED <<varsSar, varsML, varsSig, varsTi>>

\* _getSignalsSequence on the second object, up to the loop
TwinWalkStart ==
    /\ twin_pc = "constructed"
    /\ twin_signals' = ZeroSignals(Len(input))
    /\ twin_full_ti_data' = twin_ti.ti_data
    /\ twin_full_input_data' = twin_ti.input_data
    /\ twin_wi' = 0
    /\ twin_pc' = "walking"
    /\ UNCHANGED twin_ti
    /\ UNCHANGED <<varsSar, varsML, varsSig, varsTi>>

\* a loop body that asks the first object, whatever view it holds, for the
\* signal
TwinWalkStepShared ==
    /\ twin_pc = "walking"
    /\ twin_wi < Len(twin_full_ti_data)
    /\ LET i == twin_wi + 1
           view == [input_data |-> UpTo(twin_full_input_data,
                                        twin_full_input_data[i].ts),
                    ti_data |-> UpTo(twin_full_ti_data, twin_full_ti_data[i].ts)]
       IN  /\ twin_ti' = view
           /\ twin_signals' = [twin_signals EXCEPT ![i] = getTiSignal(ti)]
           /\ twin_wi' = i
    /\ UNCHANGED <<twin_full_input_data, twin_full_ti_data, twin_pc>>
    /\ UNCHANGED <<varsSar, varsML, varsSig, varsTi>>

\* one pass of the loop body on the second object: its own views are
\* installed and its own getTiSignal is called
TwinWalkStep ==
    /\ twin_pc = "walking"
    /\ twin_wi < Len(twin_full_ti_data)
    /\ LET i == twin_wi + 1
           view == [input_data |-> UpTo(twin_full_input_data,
                                        twin_full_input_data[i].ts),
                    ti_data |-> UpTo(twin_full_ti_data, twin_full_ti_data[i].ts)]
       IN  /\ twin_ti' = view
           /\ twin_signals' = [twin_signals EXCEPT ![i] = getTiSignal(view)]
           /\ twin_wi' = i
    /\ UNCHANGED <<twin_full_input_data, twin_full_ti_data, twin_pc>>
    /\ UNCHANGED <<varsSar, varsML, varsSig, varsTi>>

TwinWalkReturn ==
    /\ twin_pc = "walking"
    /\ twin_wi = Len(twin_full_ti_data)
    /\ twin_pc' = "returned"
    /\ UNCHANGED <<twin_ti, twin_full_input_data, twin_full_ti_data,
                   twin_signals, twin_wi>>
    /\ UNCHANGED <<varsSar, varsML, varsSig, varsTi>>

\* ============================================ getTiSignal of every formula
\* An instance holds the close column of its input (input_data) and the
\* column of its indicator (ti_data), oldest row first.
Iat(column, k) == column[Len(column) + 1 - k]

Returns(signal) == [raised |-> "none", signal |-> signal]
Raises(error) == [raised |-> error, signal |-> HOLD]

\* ParabolicSAR.getTiSignal on the columns of an instance
SarSignal(inst) ==
    Returns(getTiSignal(
        [input_data |-> [j \in 1..Len(inst.input_data) |->
                           [ts |-> j, close |-> inst.input_data[j]]],
         ti_data |-> [j \in 1..Len(inst.ti_data) |->
                        [ts |-> j,
                         sar |-> IF inst.ti_data[j] = NaN THEN NaN
                                 ELSE inst.ti_data[j] * Scale]]]))

\* a rule that also wants the row before the last two to lie below
RsiSignalThreeRows(inst) ==
    LET rsi == inst.ti_data
    IN  IF Len(rsi) < RsiFloor THEN Returns(HOLD)
        ELSE IF Lt(Iat(rsi, 2), RsiOverbought) /\ Lt(RsiOverbought, Iat(rsi, 1))
                /\ (Len(rsi) < 3 \/ Lt(Iat(rsi, 3), RsiOverbought))
        THEN Returns(SELL)
        ELSE IF Gt(Iat(rsi, 2), RsiOversold) /\ Gt(RsiOversold, Iat(rsi, 1))
        THEN Returns(BUY)
        ELSE Returns(HOLD)

\* RelativeStrengthIndex.getTiSignal
RsiSignal(inst) ==
    LET rsi == inst.ti_data
    IN  IF Len(rsi) < RsiFloor THEN Returns(HOLD)
        ELSE IF Lt(Iat(rsi, 2), RsiOverbought) /\ Lt(RsiOverbought, Iat(rsi, 1))
        THEN Returns(SELL)
        ELSE IF Gt(Iat(rsi, 2), RsiOversold) /\ Gt(RsiOversold, Iat(rsi, 1))
        THEN Returns(BUY)
        ELSE Returns(HOLD)

\* ewm(span=9, adjust=False): ema[1] = x[1] and
\* ema[t] = alpha * x[t] + (1 - alpha) * ema[t-1] with alpha = 2 / (span + 1),
\* here 1 / EmaDen; EmaScaled(x, t) is ema[t] * EmaDen^(t-1), an integer
EmaDen == (EmaSpan + 1) \div 2

RECURSIVE EmaScaled(_, _)
EmaScaled(x, t) ==
    IF t = 1 THEN x[1]
    ELSE (EmaDen ^ (t - 2)) * x[t] + (EmaDen - 1) * EmaScaled(x, t - 1)

\* x[t] > ema[t] and x[t] < ema[t]; ema[t] is NaN before min_periods rows and
\* every comparison with it is false
AboveEma(x, t) ==
    t >= EmaMinPeriods /\ x[t] * (EmaDen ^ (t - 1)) > EmaScaled(x, t)
BelowEma(x, t) ==
    t >= EmaMinPeriods /\ x[t] * (EmaDen ^ (t - 1)) < EmaScaled(x, t)

\* Momentum.getTiSignal
MomSignal(inst) ==
    LET mom == inst.ti_data
        n == Len(mom)
    IN  IF n < MomFloor THEN Returns(HOLD)
        ELSE IF BelowEma(mom, n - 1) /\ AboveEma(mom, n) THEN Returns(SELL)
        ELSE IF AboveEma(mom, n - 1) /\ BelowEma(mom, n) THEN Returns(BUY)
        ELSE Returns(HOLD)

RECURSIVE SeqSum(_, _, _)
SeqSum(column, lo, hi) ==
    IF lo > hi THEN 0 ELSE column[hi] + SeqSum(column, lo, hi - 1)

\* ChaikinOscillator.getTiSignal; close.iloc[-90:].mean() is compared as
\* close * count against the sum of the window
CoSignal(inst) ==
    LET co == inst.ti_data
        close == inst.input_data
        first == Max2(1, Len(close) - CoMaWindow + 1)
        count == Len(close) - first + 1
        total == SeqSum(close, first, Len(close))
    IN  IF Len(co) < CoFloor THEN Returns(HOLD)
        ELSE IF Iat(close, 1) * count > total
                /\ Iat(co, 2) < Iat(co, 1) /\ Iat(co, 1) < 0
        THEN Returns(BUY)
        ELSE IF Iat(close, 1) * count < total
                /\ Iat(co, 2) > Iat(co, 1) /\ Iat(co, 1) > 0
        THEN Returns(SELL)
        ELSE Returns(HOLD)

\* TripleExponentialMovingAverage.getTiSignal
TemaSignal(inst) ==
    LET tema == inst.ti_data
        close == inst.input_data
    IN  IF Len(tema) < TemaFloor THEN Returns(HOLD)
        ELSE IF Lt(Iat(close, 1), Iat(tema, 1)) THEN Returns(BUY)
        ELSE IF Gt(Iat(close, 1), Iat(tema, 1)) THEN Returns(SELL)
        ELSE Returns(HOLD)

\* a floor of two rows, as in the other formulas: iat[-3] is then read on a
\* TiData of two rows
VrcSignalFloorTwo(inst) ==
    LET vrc == inst.ti_data
    IN  IF Len(vrc) < RsiFloor THEN Returns(HOLD)
        ELSE IF Len(vrc) < 3 THEN Raises("IndexError")
        ELSE IF Gt(Iat(vrc, 3), Iat(vrc, 2)) /\ Gt(Iat(vrc, 2), Iat(vrc, 1))
        THEN Returns(BUY)
        ELSE IF Lt(Iat(vrc, 3), Iat(vrc, 2)) /\ Lt(Iat(vrc, 2), Iat(vrc, 1))
        THEN Returns(SELL)
        ELSE Returns(HOLD)

\* VolumeRateOfChange.getTiSignal
VrcSignal(inst) ==
    LET vrc == inst.ti_data
    IN  IF Len(vrc) < VrcFloor THEN Returns(HOLD)
        ELSE IF Gt(Iat(vrc, 3), Iat(vrc, 2)) /\ Gt(Iat(vrc, 2), Iat(vrc, 1))
        THEN Returns(BUY)
        ELSE IF Lt(Iat(vrc, 3), Iat(vrc, 2)) /\ Lt(Iat(vrc, 2), Iat(vrc, 1))
        THEN Returns(SELL)
        ELSE Returns(HOLD)

\* getTiSignal of the formula f
Signal(f, inst) ==
    CASE f = "ParabolicSAR" -> SarSignal(inst)
      [] f = "RelativeStrengthIndex" -> RsiSignal(inst)
      [] f = "Momentum" -> MomSignal(inst)
      [] f = "ChaikinOscillator" -> CoSignal(inst)
      [] f = "TripleExponentialMovingAverage" -> TemaSignal(inst)
      [] f = "VolumeRateOfChange" -> VrcSignal(inst)

\* the TiData length below which the formula f answers hold
Floor(f) ==
    CASE f = "ParabolicSAR" -> SarFloor
      [] f = "RelativeStrengthIndex" -> RsiFloor
      [] f = "Momentum" -> MomFloor
      [] f = "ChaikinOscillator" -> CoFloor
      [] f = "TripleExponentialMovingAverage" -> TemaFloor
      [] f = "VolumeRateOfChange" -> VrcFloor

\* the values a row may hold, [close, v], on both sides of what the rule of
\* the formula compares them with, and the undefined value of a warm-up row
TailRows(f) ==
    CASE f = "ParabolicSAR" -> [close : {1, 3}, v : {2, NaN}]
      [] f = "RelativeStrengthIndex" ->
           [close : {1}, v : {RsiOversold - 1, RsiOversold + 1, RsiOverbought + 1, NaN}]
      [] f = "Momentum" -> [close : {1}, v : {-1, 0, 1}]
      [] f = "ChaikinOscillator" -> [close : {2}, v : {-2, -1, 1, 2}]
      [] f = "TripleExponentialMovingAverage" -> [close : {1, 3}, v : {2, NaN}]
      [] f = "VolumeRateOfChange" -> [close : {1}, v : {1, 2, 3, NaN}]

\* the values of the older rows
FillRows(f) ==
    CASE f = "ChaikinOscillator" -> [close : {1, 2, 3}, v : {1}]
      [] f = "Momentum" -> [close : {1}, v : {-1, 0, 1}]
      [] OTHER -> {CHOOSE r \in TailRows(f) : TRUE}

\* n rows: the last MaxTail rows are free, the older rows hold one value
Instance(n, fill, tail) ==
    LET row(j) == IF n - j < MaxTail THEN tail[MaxTail - (n - j)] ELSE fill
    IN  [input_data |-> [j \in 1..n |-> row(j).close],
         ti_data |-> [j \in 1..n |-> row(j).v]]

Instances(f) ==
    {Instance(n, fill, tail) : n \in 0..(Floor(f) + MaxExtra),
                               fill \in FillRows(f),
                               tail \in [1..MaxTail -> TailRows(f)]}

NoSignal == [raised |-> "none", signal |-> HOLD]

\* indicator.getTiSignal()
GetSignal ==
    /\ sigpc = "new"
    /\ sig' = Signal(formula, indicator)
    /\ sigpc' = "done"
    /\ UNCHANGED <<formula, indicator>>
    /\ UNCHANGED <<varsSar, varsML, varsTi, varsTwin>>

\* ============================================ _calculateTi of every formula
\* The input of a calculation is a series of rows [ts, high, low, close,
\* volume]; a TiData column holds one cell per input row, NaN where the
\* value is undefined.
ColumnOf(inp, name) == [j \in 1..Len(inp) |-> inp[j][name]]

Calculated(data) == [raised |-> "none", data |-> data]
NotEnough == [raised |-> "NotEnoughInputData", data |-> <<>>]

\* no TiData yet
NoResult == [raised |-> "none", data |-> <<>>]

\* ParabolicSAR._calculateTi on a series
SarCalculateTi(inp) ==
    LET res == calculateTi(inp)
    IN  IF res.raised # "none" THEN NotEnough ELSE Calculated(res.data)

\* a calculation that runs on any number of rows
CoCalculateTiNoMinimum(inp, ws, wl) ==
    Calculated([j \in 1..Len(inp) |->
                  IF j >= Max2(ws, wl) THEN "value" ELSE "nan"])

\* ChaikinOscillator._calculateTi: the accumulation/distribution line is
\* computed first, then fewer than 10 rows raise; co is the difference of two
\* ewm(span, min_periods=span) means, undefined before the longer span is
\* filled. The series have high > low in every row, so that every adl value is
\* defined; a cell records whether co is defined, not its value.
CoCalculateTi(inp, ws, wl) ==
    IF Len(inp) < CoMinRows THEN NotEnough
    ELSE Calculated([j \in 1..Len(inp) |->
                       IF j >= Max2(ws, wl) THEN "value" ELSE "nan"])

\* Momentum._calculateTi: MOM = close.diff(period), MOMsignal its rolling
\* mean over wsig rows (kept as the sum of the window); the statements after
\* the return, the row count check among them, are inside a string
MomCalculateTi(inp, period, wsig) ==
    LET close == ColumnOf(inp, "close")
        MOM == [j \in 1..Len(inp) |->
                  IF j > period THEN close[j] - close[j - period] ELSE NaN]
    IN  Calculated([j \in 1..Len(inp) |->
                      [close |-> close[j],
                       MOM |-> MOM[j],
                       MOMsignal |-> IF j - wsig + 1 > period
                                     THEN SeqSum(MOM, j - wsig + 1, j)
                                     ELSE NaN]])

\* RelativeStrengthIndex._calculateTi: the rolling sum of the rises over the
\* rolling sum of the absolute changes, kept as numerator and denominator;
\* the first change is NaN, it counts as no rise and leaves the sum of the
\* absolute changes undefined until row period + 1; 0 / 0 is NaN. No row
\* count check.
RsiCalculateTi(inp, period) ==
    LET close == ColumnOf(inp, "close")
        diff == [j \in 1..Len(inp) |-> IF j = 1 THEN NaN ELSE close[j] - close[j - 1]]
        pos == [j \in 1..Len(inp) |-> IF Gt(diff[j], 0) THEN diff[j] ELSE 0]
        abs == [j \in 1..Len(inp) |->
                  IF j = 1 THEN 0 ELSE IF diff[j] < 0 THEN -diff[j] ELSE diff[j]]
        num(j) == SeqSum(pos, j - period + 1, j)
        den(j) == SeqSum(abs, j - period + 1, j)
    IN  Calculated([j \in 1..Len(inp) |->
                      [COURS_CLOTURE |-> close[j],
                       rsi |-> IF j <= period \/ den(j) = 0
                               THEN [num |-> NaN, den |-> NaN]
                               ELSE [num |-> num(j), den |-> den(j)]]])

\* TripleExponentialMovingAverage._calculateTi: fewer rows than self._period
\* raise; three nested ewm(span=period, min_periods=period) means, each one
\* undefined on period - 1 more rows than the one it averages. A cell records
\* whether tema is defined, not its value.
TemaCalculateTi(inp, period, own_period) ==
    IF Len(inp) < own_period THEN NotEnough
    ELSE Calculated([j \in 1..Len(inp) |->
                       IF j >= 3 * period - 2 THEN "value" ELSE "nan"])

\* VolumeRateOfChange._calculateTi: fewer rows than period raise; the change
\* of the volume against the one period rows before, in percent, kept as
\* numerator and denominator
VrcCalculateTi(inp, period) ==
    LET volume == ColumnOf(inp, "volume")
    IN  IF Len(inp) < period THEN NotEnough
        ELSE Calculated([j \in 1..Len(inp) |->
                           IF j > period
                           THEN [num |-> 100 * (volume[j] - volume[j - period]),
                                 den |-> volume[j - period]]
                           ELSE [num |-> NaN, den |-> NaN]])

\* the construction of an indicator hands its parameters to _calculateTi of
\* its class and keeps period as self._period
CalculateTi(name, inp, params) ==
    CASE name = "ParabolicSAR" -> SarCalculateTi(inp)
      [] name = "RelativeStrengthIndex" -> RsiCalculateTi(inp, params.period)
      [] name = "Momentum" -> MomCalculateTi(inp, params.period, MomSignalWindow)
      [] name = "ChaikinOscillator" -> CoCalculateTi(inp, params.ws, params.wl)
      [] name = "TripleExponentialMovingAverage" ->
           TemaCalculateTi(inp, params.period, params.period)
      [] name = "VolumeRateOfChange" -> VrcCalculateTi(inp, params.period)

\* Indicator(input_data, ...): _calculateTi runs and raises or its result is
\* stored as TiData
Calculate ==
    /\ tipc = "new"
    /\ ti_result' = CalculateTi(ti_class, ti_input, ti_params)
    /\ tipc' = IF CalculateTi(ti_class, ti_input, ti_params).raised = "none"
               THEN "calculated" ELSE "raised"
    /\ UNCHANGED <<ti_class, ti_input, ti_params>>
    /\ UNCHANGED <<varsSar, varsML, varsSig, varsTwin>>

\* =================================================== MachineLearningData
\* the walk-forward results a configured indicator may hand back: all HOLD, or
\* one BUY or SELL on a single row
SignalSeqs(n) ==
    {[t \in 1..n |-> HOLD]}
    \cup {[t \in 1..n |-> IF t = r THEN s ELSE HOLD] : r \in 1..n, s \in {BUY, SELL}}

CloseSeries(n) == [1..n -> 1..MaxClose]
\* one volume series, every row different and different from every close
VolumeSeries(n) == {[t \in 1..n |-> MaxClose + t]}

NoError == [kind |-> "none", of |-> 0, param |-> ""]
NoMatrix == [returned |-> FALSE, m |-> <<>>]

Zeros(rows, cols) == [t \in 1..rows |-> [c \in 1..cols |-> 0]]

NumRows == ml_input.n
NumTi == Len(ti_features)
HasColumn(name) ==
    IF name = "close" THEN Len(ml_input.close) > 0 ELSE Len(ml_input.volume) > 0

\* number of columns of _ml_data (lines 129-131)
NumColumns ==
    NumTi + (IF include_close_feature THEN 1 ELSE 0)
          + (IF include_volume_feature THEN 1 ELSE 0) + 1

\* the indicator class names of ALL_TI_FEATURES
SupportedIndicators ==
    {"ParabolicSAR", "RelativeStrengthIndex", "Momentum", "ChaikinOscillator",
     "TripleExponentialMovingAverage", "VolumeRateOfChange"}

\* one item of ti_features: a dict whose keys are exactly 'ti' and 'kwargs'
\* with a dict under 'kwargs' ("ok"), a dict with another key set
\* ("bad_keys"), or one whose 'kwargs' is not a dict; "Unknown" stands for any
\* name outside the supported set
ItemForms == {"ok", "bad_keys", "kwargs_not_dict"}
Items == [form : ItemForms, ti : {"ParabolicSAR", "Unknown"}]
OkItem == [form |-> "ok", ti |-> "ParabolicSAR"]

\* the argument types of a call that passes every isinstance check
WellTyped ==
    [verbose |-> "bool", include_close_feature |-> "bool",
     include_volume_feature |-> "bool", price_diff_periods |-> "int",
     pool_size |-> "int", ti_features |-> "list"]

\* lines 205-232, the checks on one item in the order of the code
ItemError(item) ==
    IF item.form = "bad_keys" THEN "WrongTypeForInputParameter"
    ELSE IF item.ti \notin SupportedIndicators THEN "WrongValueForInputParameter"
    ELSE IF item.form = "kwargs_not_dict" THEN "WrongTypeForInputParameter"
    ELSE "none"

BadItems(items) == {j \in 1..Len(items) : ItemError(items[j]) # "none"}

\* lines 200-243: the loop over ti_features stops at the first bad item
FeaturesErrorFirstOnly(items, type) ==
    IF type # "list" THEN "WrongTypeForInputParameter"
    ELSE IF Len(items) = 0 THEN "none"
    ELSE ItemError(items[1])

FeaturesError(items, type) ==
    IF type # "list" THEN "WrongTypeForInputParameter"
    ELSE IF BadItems(items) = {} THEN "none"
    ELSE ItemError(items[SetMin(BadItems(items))])

Rejected(kind, param) == [kind |-> kind, param |-> param]

\* lines 181-190, the horizon check
HorizonErrorNoUpper(type, h, n) ==
    IF type = "int"
    THEN IF h < 1 THEN "WrongValueForInputParameter" ELSE "none"
    ELSE "WrongTypeForInputParameter"

HorizonError(type, h, n) ==
    IF type = "int"
    THEN IF h < 1 \/ h >= n THEN "WrongValueForInputParameter" ELSE "none"
    ELSE "WrongTypeForInputParameter"

\* lines 167-168, no feature source is configured
NoFeaturesAlways(num_ti, close, volume) == num_ti = 0

NoFeatures(num_ti, close, volume) == num_ti = 0 /\ ~close /\ ~volume

\* the type of ti_features after line 164 replaced None by []
FeaturesType ==
    IF arg_types.ti_features = "NoneType" THEN "list" ELSE arg_types.ti_features

\* _validateInputArguments up to the indicators set: the error it raises, the
\* checks in the order of lines 148-250
ValidationError ==
    IF arg_types.verbose # "bool"
    THEN Rejected("WrongTypeForInputParameter", "verbose")
    ELSE IF arg_types.include_close_feature # "bool"
    THEN Rejected("WrongTypeForInputParameter", "include_close_feature")
    ELSE IF arg_types.include_close_feature # "bool"
    THEN Rejected("WrongTypeForInputParameter", "include_volume_feature")
    ELSE IF NoFeatures(NumTi, include_close_feature, include_volume_feature)
    THEN Rejected("NoFeaturesSelectedForMLData", "")
    ELSE IF HorizonError(arg_types.price_diff_periods, price_diff_periods,
                         NumRows) # "none"
    THEN Rejected(HorizonError(arg_types.price_diff_periods,
                               price_diff_periods, NumRows),
                  "price_diff_periods")
    ELSE IF arg_types.pool_size = "int" /\ pool_size < 1
    THEN Rejected("WrongValueForInputParameter", "pool_size")
    ELSE IF arg_types.pool_size \notin {"int", "NoneType"}
    THEN Rejected("WrongTypeForInputParameter", "pool_size")
    ELSE IF FeaturesError(ti_features, FeaturesType) # "none"
    THEN Rejected(FeaturesError(ti_features, FeaturesType), "ti_features")
    ELSE IF NumRows - price_diff_periods <= 0
    THEN Rejected("NotEnoughInputData", "")
    ELSE Rejected("none", "")

\* lines 256-262: the items whose indicator cannot be constructed, because the
\* constructor raises or because eval() cannot resolve the item
BuildFails == ctor_fails \cup BadItems(ti_features)

\* MachineLearningData(...): validation, then one indicator instance per
\* configured feature, in configuration order; then the zeroed _ml_data
MLConstruct ==
    /\ mlpc = "new"
    /\ arg_types' = [arg_types EXCEPT !.ti_features = FeaturesType]
    /\ IF ValidationError.kind # "none"
       THEN /\ raised' = [kind |-> ValidationError.kind, of |-> 0,
                          param |-> ValidationError.param]
            /\ mlpc' = "ctor_raised"
            /\ UNCHANGED <<indicators_set, ml_data>>
       ELSE IF BuildFails # {}
       THEN /\ raised' = [kind |-> "ConstructError", of |-> SetMin(BuildFails),
                          param |-> ""]
            /\ indicators_set' = [j \in 1..(SetMin(BuildFails) - 1) |-> j]
            /\ mlpc' = "ctor_raised"
            /\ UNCHANGED ml_data
       ELSE /\ indicators_set' = [j \in 1..NumTi |-> j]
            /\ ml_data' = Zeros(NumRows - price_diff_periods, NumColumns)
            /\ mlpc' = "ready"
            /\ UNCHANGED raised
    /\ UNCHANGED <<ml_input, ti_features, ti_signals, ctor_fails, task_fails,
                   include_close_feature, include_volume_feature,
                   price_diff_periods, pool_size, tasks, results, done_order,
                   features_values, features, returned, exported>>
    /\ UNCHANGED <<varsSar, varsSig, varsTi, varsTwin>>

\* createMLData -> _createMLDataFeatures, lines 338-348: the pool is created
\* and one task per indicator is submitted, in configuration order
CreateMLData ==
    /\ mlpc = "ready"
    /\ tasks' = [j \in 1..Len(indicators_set) |-> "queued"]
    /\ results' = [j \in 1..Len(indicators_set) |-> [state |-> "pending", value |-> <<>>]]
    /\ mlpc' = "pool"
    /\ UNCHANGED <<ml_input, ti_features, arg_types, ti_signals, ctor_fails,
                   task_fails,
                   include_close_feature, include_volume_feature,
                   price_diff_periods, pool_size, indicators_set, ml_data,
                   done_order, features_values, features, raised, returned,
                   exported>>
    /\ UNCHANGED <<varsSar, varsSig, varsTi, varsTwin>>

Running == {j \in DOMAIN tasks : tasks[j] = "running"}
Queued == {j \in DOMAIN tasks : tasks[j] = "queued"}

\* an idle worker process takes the oldest queued task
TaskStart(j) ==
    /\ mlpc \in {"pool", "joined"}
    /\ j \in Queued
    /\ j = SetMin(Queued)
    /\ Cardinality(Running) < pool_size
    /\ tasks' = [tasks EXCEPT ![j] = "running"]
    /\ UNCHANGED <<ml_input, ti_features, arg_types, ti_signals, ctor_fails,
                   task_fails,
                   include_close_feature, include_volume_feature,
                   price_diff_periods, pool_size, indicators_set, ml_data,
                   results, done_order, features_values, features, raised,
                   returned, exported, mlpc>>
    /\ UNCHANGED <<varsSar, varsSig, varsTi, varsTwin>>

\* a worker that swallows the error of its task and hands back no signal
TaskOutcomeSwallow(j, fails, sigs) ==
    IF j \in fails
    THEN [state |-> "value", value |-> [t \in 1..Len(sigs[j]) |-> HOLD]]
    ELSE [state |-> "value", value |-> sigs[j]]

\* what apply_async stores for task j: the returned signals, or the error
TaskOutcome(j, fails, sigs) ==
    IF j \in fails
    THEN [state |-> "error", value |-> <<>>]
    ELSE [state |-> "value", value |-> sigs[j]]

\* a worker finishes _getSignalsSequence for indicator j: the AsyncResult
\* holds the signals or the error the task raised
TaskFinish(j) ==
    /\ mlpc \in {"pool", "joined"}
    /\ j \in Running
    /\ tasks' = [tasks EXCEPT ![j] = "done"]
    /\ results' = [results EXCEPT ![j] = TaskOutcome(j, task_fails, ti_signals)]
    /\ done_order' = Append(done_order, j)
    /\ UNCHANGED <<ml_input, ti_features, arg_types, ti_signals, ctor_fails,
                   task_fails,
                   include_close_feature, include_volume_feature,
                   price_diff_periods, pool_size, indicators_set, ml_data,
                   features_values, features, raised, returned, exported,
                   mlpc>>
    /\ UNCHANGED <<varsSar, varsSig, varsTi, varsTwin>>

\* a join that does not wait
JoinReturnsEarly(t) == TRUE

\* join() returns once the workers have run every submitted task
JoinReturns(t) == \A j \in DOMAIN t : t[j] = "done"

\* processes_pool.close(); processes_pool.join()
PoolJoin ==
    /\ mlpc = "pool"
    /\ JoinReturns(tasks)
    /\ mlpc' = "joined"
    /\ UNCHANGED <<ml_input, ti_features, arg_types, ti_signals, ctor_fails,
                   task_fails,
                   include_close_feature, include_volume_feature,
                   price_diff_periods, pool_size, indicators_set, ml_data,
                   tasks, results, done_order, features_values, features,
                   raised, returned, exported>>
    /\ UNCHANGED <<varsSar, varsSig, varsTi, varsTwin>>

\* results taken in the order the tasks completed
ResultForCompletion(res, order, i) == res[order[i]]

\* the AsyncResult whose get() fills position i of features_values
ResultFor(res, order, i) == res[i]

\* features_values = [r.get() for r in results], one get() at a time: get()
\* blocks while the result is pending and re-raises the error of a failed task
GetResult ==
    /\ mlpc = "joined"
    /\ Len(features_values) < Len(results)
    /\ LET i == Len(features_values) + 1
           r == ResultFor(results, done_order, i)
       IN  /\ r.state # "pending"
           /\ IF r.state = "error"
              THEN /\ raised' = [kind |-> "TaskError", of |-> i, param |-> ""]
                   /\ mlpc' = "raised"
                   /\ UNCHANGED features_values
              ELSE /\ features_values' = Append(features_values, r.value)
                   /\ UNCHANGED <<raised, mlpc>>
    /\ UNCHANGED <<ml_input, ti_features, arg_types, ti_signals, ctor_fails,
                   task_fails,
                   include_close_feature, include_volume_feature,
                   price_diff_periods, pool_size, indicators_set, ml_data,
                   tasks, results, done_order, features, returned, exported>>
    /\ UNCHANGED <<varsSar, varsSig, varsTi, varsTwin>>

\* frame[h:]
TrimHead(frame, h) == SubSeq(frame, h + 1, Len(frame))

\* frame[:-h]
TrimTail(frame, h) == SubSeq(frame, 1, Len(frame) - h)

\* numpy.roll(a, shift=h)
RollForward(a, h) == [t \in 1..Len(a) |-> a[((t - 1 - h) % Len(a)) + 1]]

\* numpy.roll(a, shift=-h): element t of the result is element t + h of a,
\* wrapping around the end
RollBack(a, h) == [t \in 1..Len(a) |-> a[((t - 1 + h) % Len(a)) + 1]]

\* labels[labels > 0] = UP, then labels[labels <= 0] = DOWN
MarkUp(d) == [t \in 1..Len(d) |-> IF d[t] > 0 THEN UP ELSE d[t]]
MarkDown(d) == [t \in 1..Len(d) |-> IF d[t] <= 0 THEN DOWN ELSE d[t]]

\* _createMLDataLabels
createMLDataLabels(cl, h) ==
    LET rolled == RollBack(cl, h)
        diff == [t \in 1..Len(cl) |-> rolled[t] - cl[t]]
    IN  MarkDown(MarkUp(diff))

\* features[:, i] = features_values[i].transpose()
FeaturesMatrix(fv, n) == [t \in 1..n |-> [j \in 1..Len(fv) |-> fv[j][t]]]

\* self._ml_data[:, :k] = block
WriteTiColumns(m, k, block) ==
    [t \in 1..Len(m) |-> [c \in 1..Len(m[t]) |-> IF c <= k THEN block[t][c] ELSE m[t][c]]]

\* self._ml_data[:, at] = column, at counted from 1
WriteColumn(m, at, column) ==
    [t \in 1..Len(m) |-> [c \in 1..Len(m[t]) |-> IF c = at THEN column[t] ELSE m[t][c]]]

\* column of the close feature: features_index = len(ti_features)
CloseColumn(k) == k + 1

\* a volume column that does not move up when close is left out
VolumeColumnFixed(k, with_close) == k + 2

\* column of the volume feature: after close when close is included
VolumeColumn(k, with_close) == IF with_close THEN k + 2 ELSE k + 1

\* column -1
LabelColumn(m) == Len(m[1])

\* the rest of _createMLDataFeatures (lines 354-357) and of createMLData
\* (lines 277-296); a column missing from the input raises KeyError at the
\* statement that reads it
Assemble ==
    /\ mlpc = "joined"
    /\ Len(features_values) = Len(results)
    /\ LET h == price_diff_periods
           k == NumTi
           feats == FeaturesMatrix(features_values, NumRows)
           m1 == WriteTiColumns(ml_data, k, TrimTail(feats, h))
           m2 == IF include_close_feature /\ HasColumn("close")
                 THEN WriteColumn(m1, CloseColumn(k), TrimTail(ml_input.close, h))
                 ELSE m1
           m3 == IF include_volume_feature /\ HasColumn("volume")
                 THEN WriteColumn(m2, VolumeColumn(k, include_close_feature),
                                  TrimTail(ml_input.volume, h))
                 ELSE m2
           m4 == IF HasColumn("close")
                 THEN WriteColumn(m3, LabelColumn(m3),
                                  TrimTail(createMLDataLabels(ml_input.close, h), h))
                 ELSE m3
       IN  /\ features' = [returned |-> TRUE, m |-> feats]
           /\ IF include_close_feature /\ ~HasColumn("close")
              THEN /\ ml_data' = m1
                   /\ raised' = [kind |-> "KeyError", of |-> 0, param |-> ""]
                   /\ mlpc' = "raised"
                   /\ UNCHANGED returned
              ELSE IF include_volume_feature /\ ~HasColumn("volume")
              THEN /\ ml_data' = m2
                   /\ raised' = [kind |-> "KeyError", of |-> 0, param |-> ""]
                   /\ mlpc' = "raised"
                   /\ UNCHANGED returned
              ELSE IF ~HasColumn("close")
              THEN /\ ml_data' = m3
                   /\ raised' = [kind |-> "KeyError", of |-> 0, param |-> ""]
                   /\ mlpc' = "raised"
                   /\ UNCHANGED returned
              ELSE /\ ml_data' = m4
                   /\ returned' = [returned |-> TRUE, m |-> m4]
                   /\ mlpc' = "returned"
                   /\ UNCHANGED raised
    /\ UNCHANGED <<ml_input, ti_features, arg_types, ti_signals, ctor_fails,
                   task_fails,
                   include_close_feature, include_volume_feature,
                   price_diff_periods, pool_size, indicators_set, tasks,
                   results, done_order, features_values, exported>>
    /\ UNCHANGED <<varsSar, varsSig, varsTi, varsTwin>>

\* saveMLData after createMLData has returned or raised: the frame written to
\* the csv file is the stored _ml_data
SaveMLData ==
    /\ mlpc \in {"returned", "raised"}
    /\ ~exported.returned
    /\ exported' = [returned |-> TRUE, m |-> ml_data]
    /\ UNCHANGED <<ml_input, ti_features, arg_types, ti_signals, ctor_fails,
                   task_fails,
                   include_close_feature, include_volume_feature,
                   price_diff_periods, pool_size, indicators_set, ml_data,
                   tasks, results, done_order, features_values, features,
                   raised, returned, mlpc>>
    /\ UNCHANGED <<varsSar, varsSig, varsTi, varsTwin>>

\* ------------------------------------------------------------ specifications
\* no indicator is asked for its signal in the other specifications
IdleSig ==
    /\ formula = "none"
    /\ indicator = NoInstance
    /\ sig = NoSignal
    /\ sigpc = "idle"

\* no second object in the other specifications
IdleTwin ==
    /\ twin_ti = NoInstance
    /\ twin_full_input_data = <<>>
    /\ twin_full_ti_data = <<>>
    /\ twin_signals = <<>>
    /\ twin_wi = 0
    /\ twin_pc = "idle"

\* no indicator is under construction in the other specifications
IdleTi ==
    /\ ti_class = "none"
    /\ ti_input = <<>>
    /\ ti_params = [period |-> 1]
    /\ ti_result = NoResult
    /\ tipc = "idle"

\* no MachineLearningData object in the indicator specifications
IdleML ==
    /\ ml_input = [n |-> 0, close |-> <<>>, volume |-> <<>>]
    /\ ti_features = <<>>
    /\ arg_types = WellTyped
    /\ ti_signals = <<>>
    /\ ctor_fails = {}
    /\ task_fails = {}
    /\ include_close_feature = FALSE
    /\ include_volume_feature = FALSE
    /\ price_diff_periods = 1
    /\ pool_size = 1
    /\ indicators_set = <<>>
    /\ ml_data = <<>>
    /\ tasks = <<>>
    /\ results = <<>>
    /\ done_order = <<>>
    /\ features_values = <<>>
    /\ features = NoMatrix
    /\ raised = NoError
    /\ returned = NoMatrix
    /\ exported = NoMatrix
    /\ mlpc = "idle"

\* no stand-alone indicator in the MachineLearningData specifications
IdleSar ==
    /\ input = <<>>
    /\ warmup = 0
    /\ sar_frame = NoFrame
    /\ ti = NoInstance
    /\ full_input_data = <<>>
    /\ full_ti_data = <<>>
    /\ signals = <<>>
    /\ wi = 0
    /\ pc = "idle"

InitCommon ==
    /\ input \in AllInputs
    /\ sar_frame = NoFrame
    /\ ti = NoInstance
    /\ full_input_data = <<>>
    /\ full_ti_data = <<>>
    /\ signals = <<>>
    /\ wi = 0
    /\ pc = "new"
    /\ IdleML
    /\ IdleSig
    /\ IdleTi
    /\ IdleTwin

InitSar == InitCommon /\ warmup = 0

InitWarm == InitCommon /\ warmup \in 0..MaxWarmup

NextSar == Construct \/ WalkStart \/ WalkStep \/ WalkReturn

SpecSar == InitSar /\ [][NextSar]_vars

SpecWarm == InitWarm /\ [][NextSar]_vars

\* two objects on one input, their constructions and walks interleaved in
\* every order
InitTwin ==
    /\ input \in UNION {InputSeries(n) : n \in 1..MaxTwinLen}
    /\ warmup = 0
    /\ sar_frame = NoFrame
    /\ ti = NoInstance
    /\ full_input_data = <<>>
    /\ full_ti_data = <<>>
    /\ signals = <<>>
    /\ wi = 0
    /\ pc = "new"
    /\ twin_ti = NoInstance
    /\ twin_full_input_data = <<>>
    /\ twin_full_ti_data = <<>>
    /\ twin_signals = <<>>
    /\ twin_wi = 0
    /\ twin_pc = "new"
    /\ IdleML
    /\ IdleSig
    /\ IdleTi

NextTwin ==
    \/ NextSar
    \/ TwinConstruct \/ TwinWalkStart \/ TwinWalkStep \/ TwinWalkReturn

SpecTwin == InitTwin /\ [][NextTwin]_vars

\* the calculation alone, over the short series and the long rising ones
InitCalc ==
    /\ input \in AllInputs \cup RisingInputs \cup PeakInputs
    /\ warmup = 0
    /\ sar_frame = NoFrame
    /\ ti = NoInstance
    /\ full_input_data = <<>>
    /\ full_ti_data = <<>>
    /\ signals = <<>>
    /\ wi = 0
    /\ pc = "new"
    /\ IdleML
    /\ IdleSig
    /\ IdleTi
    /\ IdleTwin

NextCalc == Construct

SpecCalc == InitCalc /\ [][NextCalc]_vars

\* a fresh object: nothing computed yet
InitMLState ==
    /\ indicators_set = <<>>
    /\ ml_data = <<>>
    /\ tasks = <<>>
    /\ results = <<>>
    /\ done_order = <<>>
    /\ features_values = <<>>
    /\ features = NoMatrix
    /\ raised = NoError
    /\ returned = NoMatrix
    /\ exported = NoMatrix
    /\ mlpc = "new"
    /\ IdleSar
    /\ IdleSig
    /\ IdleTi
    /\ IdleTwin

TiConfigs(n) == UNION {[1..k -> SignalSeqs(n)] : k \in 0..MaxTi}

\* the worker pool: any configuration, pool size, failing indicators
InitPool ==
    /\ ml_input = [n |-> MaxRows,
                   close |-> [t \in 1..MaxRows |-> 1 + (t % MaxClose)],
                   volume |-> CHOOSE v \in VolumeSeries(MaxRows) : TRUE]
    /\ ti_signals \in TiConfigs(MaxRows)
    /\ ti_features = [j \in 1..Len(ti_signals) |-> OkItem]
    /\ arg_types = WellTyped
    /\ ctor_fails \in SUBSET (1..Len(ti_signals))
    /\ task_fails \in SUBSET (1..Len(ti_signals))
    /\ ctor_fails # {} => task_fails = {}
    /\ include_close_feature = FALSE
    /\ include_volume_feature = FALSE
    /\ price_diff_periods = 1
    /\ pool_size \in 1..MaxPool
    /\ InitMLState

\* the worked example of the specification
ExampleClose == <<10, 12, 11, 11, 15>>

\* input frames of the assembly: n rows, a close and a volume column, each of
\* which may be missing (<<>>)
AsmInputs ==
    UNION {[n : {n}, close : CloseSeries(n) \cup {<<>>},
            volume : VolumeSeries(n) \cup {<<>>}] : n \in 2..MaxRows}
    \cup [n : {Len(ExampleClose)}, close : {ExampleClose},
          volume : VolumeSeries(Len(ExampleClose))]

\* the assembly: any close series, horizon, passthrough flags and columns
InitAsm ==
    /\ ml_input \in AsmInputs
    /\ ti_signals \in TiConfigs(ml_input.n)
    /\ ti_features = [j \in 1..Len(ti_signals) |-> OkItem]
    /\ arg_types = WellTyped
    /\ price_diff_periods \in 1..(ml_input.n - 1)
    /\ ctor_fails = {}
    /\ task_fails = {}
    /\ include_close_feature \in BOOLEAN
    /\ include_volume_feature \in BOOLEAN
    /\ pool_size = 1
    /\ InitMLState

NextML ==
    \/ MLConstruct
    \/ CreateMLData
    \/ \E j \in 1..MaxTi : TaskStart(j)
    \/ \E j \in 1..MaxTi : TaskFinish(j)
    \/ PoolJoin
    \/ GetResult
    \/ Assemble
    \/ SaveMLData

SpecPool == InitPool /\ [][NextML]_vars

SpecAsm == InitAsm /\ [][NextML]_vars

\* an indicator of any formula holding any of the instances
InitSig ==
    /\ formula \in SupportedIndicators
    /\ indicator \in Instances(formula)
    /\ sig = NoSignal
    /\ sigpc = "new"
    /\ IdleSar
    /\ IdleML
    /\ IdleTi
    /\ IdleTwin

NextSig == GetSignal

SpecSig == InitSig /\ [][NextSig]_vars

\* the series of the calculations: n rows with high one above low, the close
\* at the low, and the closes and volumes level (k = 0) or moving through
\* three values
TiSeries(n, k) ==
    [j \in 1..n |-> [ts |-> j, high |-> 2 + ((j * k) % 3), low |-> 1 + ((j * k) % 3),
                     close |-> 1 + ((j * k) % 3), volume |-> 1 + ((j * k) % 3)]]

\* the parameters a class takes: the two spans of the Chaikin Oscillator, the
\* period of the period-based formulas
ParamsOf(name) ==
    CASE name = "ParabolicSAR" -> {[period |-> 1]}
      [] name = "ChaikinOscillator" ->
           [period : {1}, ws : 1..MaxPeriod, wl : 1..MaxPeriod]
      [] OTHER -> [period : 1..MaxPeriod]

\* an indicator of any class, on a series of any length from none to MaxBars
InitTi ==
    /\ ti_class \in SupportedIndicators
    /\ ti_input \in {TiSeries(n, k) : n \in 0..MaxBars, k \in 0..2}
    /\ ti_params \in ParamsOf(ti_class)
    /\ ti_result = NoResult
    /\ tipc = "new"
    /\ IdleSar
    /\ IdleML
    /\ IdleSig
    /\ IdleTwin

NextTi == Calculate

SpecTi == InitTi /\ [][NextTi]_vars

\* the arguments of the validation: every argument may have a wrong type or
\* a wrong value; a value that no check reads is fixed
ArgTypes ==
    [verbose : {"bool", "str"},
     include_close_feature : {"bool", "str"},
     include_volume_feature : {"bool", "str"},
     price_diff_periods : {"int", "float"},
     pool_size : {"int", "NoneType", "str"},
     ti_features : {"list", "NoneType", "tuple"}]

InitVal ==
    /\ ml_input \in {[n |-> n, close |-> [t \in 1..n |-> 1],
                      volume |-> [t \in 1..n |-> MaxClose + t]] : n \in 1..MaxRows}
    /\ arg_types \in ArgTypes
    /\ ti_features \in UNION {[1..k -> Items] : k \in 0..MaxTi}
    /\ arg_types.ti_features = "NoneType" => ti_features = <<>>
    /\ arg_types.ti_features = "tuple" => Len(ti_features) <= 1
    /\ ti_signals = [j \in 1..Len(ti_features) |-> [t \in 1..ml_input.n |-> HOLD]]
    /\ ctor_fails = {}
    /\ task_fails = {}
    /\ include_close_feature \in BOOLEAN
    /\ arg_types.include_close_feature # "bool" => include_close_feature
    /\ include_volume_feature \in BOOLEAN
    /\ price_diff_periods \in 0..(ml_input.n + 1)
    /\ arg_types.price_diff_periods # "int" => price_diff_periods = 1
    /\ pool_size \in 0..1
    /\ arg_types.pool_size # "int" => pool_size = 1
    /\ InitMLState

NextVal == MLConstruct

SpecVal == InitVal /\ [][NextVal]_vars

\* ------------------------------------------------------------------ claims
\* rows of the views installed on the indicator instance
ViewRows == {ti.input_data[j] : j \in 1..Len(ti.input_data)}
              \cup {ti.ti_data[j] : j \in 1..Len(ti.ti_data)}

\* C1: while the replay has stored the signal of row wi, every row of the
\* input view and of the TiData view it was computed on has a timestamp not
\* after the timestamp of input row wi, also when TiData starts later than
\* the input.
C1_NoLookAhead ==
    (pc \in {"walking", "returned"} /\ wi >= 1)
        => \A r \in ViewRows : r.ts <= full_input_data[wi].ts

\* a fresh ParabolicSAR on rows 1..i of the input, then getTiSignal()
FreshSignal(inp, i) ==
    LET prefix == SubSeq(inp, 1, i)
        res == calculateTi(prefix)
    IN  IF res.raised # "none"
        THEN [raised |-> res.raised, signal |-> HOLD]
        ELSE [raised |-> "none",
              signal |-> getTiSignal([input_data |-> prefix, ti_data |-> res.data])]

\* C2 as stated: every stored replay signal equals the signal of a fresh
\* indicator constructed on the prefix ending at that row.
C2_EquivalenceEveryRow ==
    pc \in {"walking", "returned"}
        => \A i \in 1..wi : /\ FreshSignal(input, i).raised = "none"
                             /\ FreshSignal(input, i).signal = signals[i]

\* C2 amended: from the second row on, the stored replay signal equals the
\* signal of a fresh Parabolic SAR on the prefix; on the first row the replay
\* stores HOLD while the fresh construction raises NotEnoughInputData.
C2_EquivalenceFromSecondRow ==
    pc \in {"walking", "returned"}
        => \A i \in 1..wi :
              IF i = 1
              THEN /\ signals[i] = HOLD
                   /\ FreshSignal(input, i).raised = "NotEnoughInputData"
              ELSE /\ FreshSignal(input, i).raised = "none"
                   /\ FreshSignal(input, i).signal = signals[i]

C2_Witness ==
    /\ pc = "returned"
    /\ Len(signals) >= 3
    /\ \E i \in 2..Len(signals) :
          /\ signals[i] # HOLD
          /\ FreshSignal(input, i).signal = signals[i]

\* series that agree with inp on rows 1..i: one later row replaced, or the
\* series cut after a row not before i (at least the two rows a Parabolic
\* SAR needs)
Alternatives(inp, i) ==
    {[inp EXCEPT ![j] = [ts |-> j, high |-> r.high, low |-> r.low, close |-> r.close]] :
        j \in (i + 1)..Len(inp), r \in RowVals}
    \cup {SubSeq(inp, 1, n) : n \in Max2(i, 2)..Len(inp)}

\* C3 as stated: TiData row i is the same for every series that agrees with
\* the input on rows 1..i, the first row included.
C3_RowFromPastEveryRow ==
    pc = "constructed"
        => \A i \in 1..Len(input) : \A alt \in Alternatives(input, i) :
              calculateTi(alt).data[i] = ti.ti_data[i]

\* C3 amended: TiData row i is the same for every series that agrees with
\* the input on rows 1..i when i is not the first row, and the first row is
\* the same for every series that agrees on the first two rows.
C3_RowFromPastAfterFirst ==
    pc = "constructed"
        => \A i \in 1..Len(input) : \A alt \in Alternatives(input, Max2(i, 2)) :
              calculateTi(alt).data[i] = ti.ti_data[i]

C3_Witness ==
    /\ pc = "constructed"
    /\ Len(input) >= 4
    /\ ti.ti_data[4].sar % Scale # 0
    /\ \E alt \in Alternatives(input, 3) :
          /\ Len(alt) = Len(input)
          /\ calculateTi(alt).data[3] = ti.ti_data[3]
          /\ calculateTi(alt).data[4] # ti.ti_data[4]

\* C4: whatever the completion order and the pool size, column j of the
\* matrix returned by _createMLDataFeatures is the signal sequence of the j-th
\* configured indicator.
C4_ColumnOrder ==
    features.returned
        => /\ Len(features.m) = NumRows
           /\ \A t \in 1..NumRows :
                 /\ Len(features.m[t]) = NumTi
                 /\ \A j \in 1..NumTi : features.m[t][j] = ti_signals[j][t]

C4_Witness ==
    /\ features.returned
    /\ pool_size >= 2
    /\ NumTi >= 2
    /\ done_order[1] = 2
    /\ ti_signals[1] # ti_signals[2]

\* C5: a task result is read, and the feature matrix or _ml_data is written,
\* only in steps taken when every submitted task has finished and the pool
\* has been joined.
C5_JoinBeforeAssembly ==
    [][(mlpc # "new" /\ (\/ features_values' # features_values
                         \/ features' # features
                         \/ ml_data' # ml_data
                         \/ raised' # raised))
          => (mlpc = "joined" /\ \A j \in DOMAIN tasks : tasks[j] = "done")]_vars

C5_Witness ==
    /\ mlpc = "joined"
    /\ Len(features_values) >= 2
    /\ done_order[1] # 1

\* C6: when the construction or the walk-forward task of a configured
\* indicator fails, no feature matrix and no ML data is ever returned, and the
\* error raised is the error of a failing indicator, wherever it stands in
\* the configuration.
C6_FailFast ==
    /\ (ctor_fails # {} /\ mlpc # "new")
          => /\ mlpc = "ctor_raised"
             /\ raised.kind = "ConstructError"
             /\ raised.of \in ctor_fails
             /\ ml_data = <<>>
    /\ task_fails # {}
          => /\ ~features.returned
             /\ ~returned.returned
             /\ mlpc # "returned"
             /\ ~(mlpc = "joined" /\ Len(features_values) = Len(results))
             /\ mlpc = "raised" => raised.kind = "TaskError" /\ raised.of \in task_fails

C6_Witness ==
    /\ mlpc = "raised"
    /\ NumTi >= 2
    /\ task_fails = {NumTi}
    /\ raised = [kind |-> "TaskError", of |-> NumTi, param |-> ""]
    /\ Len(features_values) = NumTi - 1

\* C7: whenever createMLData raises, _ml_data is what it was before the call
\* (the zeroed matrix of the constructor), and so is what saveMLData exports
\* afterwards.
C7_NoPartialMatrix ==
    mlpc = "raised"
        => /\ ml_data = Zeros(NumRows - price_diff_periods, NumColumns)
           /\ exported.returned
                 => exported.m = Zeros(NumRows - price_diff_periods, NumColumns)

\* the label of the claim for row t: UP when the close h rows later is higher
ExpectedLabel(t) ==
    IF ml_input.close[t + price_diff_periods] - ml_input.close[t] > 0 THEN UP ELSE DOWN

C10_ColumnPlacement ==
    returned.returned
        => \A t \in 1..Len(returned.m) :
              LET row == returned.m[t]
                  k == NumTi
              IN  /\ \A j \in 1..k : row[j] = ti_signals[j][t]
                  /\ include_close_feature => row[k + 1] = ml_input.close[t]
                  /\ (include_volume_feature /\ include_close_feature)
                        => row[k + 2] = ml_input.volume[t]
                  /\ (include_volume_feature /\ ~include_close_feature)
                        => row[k + 1] = ml_input.volume[t]
                  /\ Len(row) = k + (IF include_close_feature THEN 1 ELSE 0)
                                  + (IF include_volume_feature THEN 1 ELSE 0) + 1
                  /\ row[Len(row)] = ExpectedLabel(t)

C10_Witness ==
    /\ returned.returned
    /\ NumTi >= 2
    /\ include_volume_feature
    /\ ~include_close_feature
    /\ ti_signals[1] # ti_signals[2]

\* C16: when _getSignalsSequence has returned, the indicator instance holds
\* again the full-history input and TiData it held before the call, also when
\* TiData has fewer rows than the input.
C16_SubstitutionScoped ==
    pc = "returned"
        => /\ ti.input_data = full_input_data
           /\ ti.ti_data = full_ti_data

\* the checks of _validateInputArguments that come before the horizon check
\* pass: verbose and include_close_feature are booleans and some feature
\* source is configured
ReachesHorizonCheck ==
    /\ arg_types.verbose = "bool"
    /\ arg_types.include_close_feature = "bool"
    /\ ~(NumTi = 0 /\ ~include_close_feature /\ ~include_volume_feature)

\* C17: when N - h <= 0 the construction fails with NotEnoughInputData.
C17_InsufficientHistory ==
    (mlpc # "new" /\ ReachesHorizonCheck
       /\ arg_types.price_diff_periods = "int"
       /\ NumRows - price_diff_periods <= 0)
        => (mlpc = "ctor_raised" /\ raised.kind = "NotEnoughInputData")

HorizonInRange ==
    /\ arg_types.price_diff_periods = "int"
    /\ 1 <= price_diff_periods
    /\ price_diff_periods <= NumRows - 1

RejectedFor(kind, param) ==
    /\ mlpc = "ctor_raised"
    /\ raised.kind = kind
    /\ raised.param = param
    /\ indicators_set = <<>>

\* C18: a construction that reaches the horizon check gets past it only if
\* price_diff_periods is an integer h with 1 <= h <= N-1; an integer h < 1 or
\* h >= N is rejected with WrongValueForInputParameter and a non-integer h
\* with WrongTypeForInputParameter, with no indicator constructed.
C18_HorizonValidation ==
    (mlpc # "new" /\ ReachesHorizonCheck)
        => /\ (mlpc = "ready" \/ raised.param # "price_diff_periods")
                => HorizonInRange
           /\ (arg_types.price_diff_periods = "int" /\ ~HorizonInRange)
                => RejectedFor("WrongValueForInputParameter", "price_diff_periods")
           /\ arg_types.price_diff_periods # "int"
                => RejectedFor("WrongTypeForInputParameter", "price_diff_periods")

C18_Witness ==
    /\ ReachesHorizonCheck
    /\ NumTi >= 1
    /\ arg_types.price_diff_periods = "int"
    /\ price_diff_periods >= NumRows
    /\ RejectedFor("WrongValueForInputParameter", "price_diff_periods")

\* C19: a construction fails with NoFeaturesSelectedForMLData exactly when
\* ti_features is None or empty and neither include_close_feature nor
\* include_volume_feature is set (the two boolean checks before it passing);
\* with a feature source configured the error is never raised.
C19_NoFeaturesSelected ==
    (mlpc # "new" /\ arg_types.verbose = "bool"
       /\ arg_types.include_close_feature = "bool")
        => ((mlpc = "ctor_raised" /\ raised.kind = "NoFeaturesSelectedForMLData")
              <=> (Len(ti_features) = 0 /\ ~include_close_feature
                     /\ ~include_volume_feature))

C19_Witness ==
    /\ mlpc = "ctor_raised"
    /\ raised.kind = "NoFeaturesSelectedForMLData"
    /\ ti_features = <<>>
    /\ ~include_close_feature
    /\ ~include_volume_feature
    /\ indicators_set = <<>>

\* every check before the ti_features loop passes
ReachesFeaturesCheck ==
    /\ ReachesHorizonCheck
    /\ HorizonInRange
    /\ arg_types.pool_size = "NoneType"
         \/ (arg_types.pool_size = "int" /\ pool_size >= 1)

\* C20: when an item of ti_features names an unsupported formula or is not
\* a well-formed {ti, kwargs} item, the construction fails and no indicator
\* instance has been constructed, wherever the item stands in the list; with
\* the other arguments valid the error is the one of that item.
C20_ConfigErrorsFirst ==
    (mlpc # "new" /\ BadItems(ti_features) # {})
        => /\ mlpc = "ctor_raised"
           /\ indicators_set = <<>>
           /\ ReachesFeaturesCheck
                => /\ raised.param = "ti_features"
                   /\ arg_types.ti_features = "list"
                        => raised.kind =
                             ItemError(ti_features[SetMin(BadItems(ti_features))])

C20_Witness ==
    /\ mlpc = "ctor_raised"
    /\ ReachesFeaturesCheck
    /\ arg_types.ti_features = "list"
    /\ Len(ti_features) >= 2
    /\ BadItems(ti_features) = {Len(ti_features)}
    /\ ti_features[Len(ti_features)].ti \notin SupportedIndicators
    /\ raised.kind = "WrongValueForInputParameter"
    /\ indicators_set = <<>>

\* the af/ep/sar/position frame _calculateTi built for the input
Frame == sar_frame.rows

\* first row of the run of equal positions that row i belongs to
RunStart(i) ==
    SetMin({j \in 1..i : \A k \in j..i : Frame[k].position = Frame[i].position})

\* the stop computed for row i from row i-1, before the flip test
Stop(i) == SarValue(input, i, Frame[i - 1])

StoppedOut(i) ==
    \/ Frame[i - 1].position = "LONG" /\ input[i].low * Scale < Stop(i)
    \/ Frame[i - 1].position = "SHORT" /\ input[i].high * Scale > Stop(i)

\* C13: for every row after the first, the position differs from the one of
\* the row before exactly when the previous position is LONG and the low is
\* below the stop computed for the row, or it is SHORT and the high is above
\* it; on such a row, and only there, a new position starts, af is the base
\* increment, ep is the low (flip to SHORT) or the high (flip to LONG) of the
\* row, and sar is the highest high (lowest low) of the rows of the position
\* that just ended.
C13_FlipRule ==
    pc = "constructed"
        => \A i \in 2..Len(input) :
             /\ (Frame[i].position # Frame[i - 1].position) <=> StoppedOut(i)
             /\ (sar_frame.starts[i] = i) <=> StoppedOut(i)
             /\ sar_frame.starts[i] = RunStart(i)
             /\ StoppedOut(i)
                  => /\ Frame[i].af = AfIncrease
                     /\ Frame[i - 1].position = "LONG"
                          => /\ Frame[i].position = "SHORT"
                             /\ Frame[i].ep = input[i].low * Scale
                             /\ Frame[i].sar =
                                  HighMax(input, RunStart(i - 1), i - 1)
                     /\ Frame[i - 1].position = "SHORT"
                          => /\ Frame[i].position = "LONG"
                             /\ Frame[i].ep = input[i].high * Scale
                             /\ Frame[i].sar =
                                  LowMin(input, RunStart(i - 1), i - 1)

\* a position of several rows ends, and the row of the flip has a higher high
\* than every row of the position that ended
C13_Witness ==
    /\ pc = "constructed"
    /\ \E i \in 3..Len(input) :
         /\ StoppedOut(i)
         /\ Frame[i - 1].position = "LONG"
         /\ RunStart(i - 1) < i - 1
         /\ input[i].high * Scale > Frame[i].sar

Improved(i) ==
    \/ Frame[i - 1].position = "LONG" /\ Frame[i].ep > Frame[i - 1].ep
    \/ Frame[i - 1].position = "SHORT" /\ Frame[i].ep < Frame[i - 1].ep

\* C14: in every row af lies in [0.02, 0.2]; between consecutive rows of the
\* same position af never decreases, and it grows, by exactly 0.02 and capped
\* at 0.2, only when the extreme price strictly improves; af is 0.02 at row 0
\* and at every flip row.
C14_AccelerationFactor ==
    pc = "constructed"
        => /\ \A i \in 1..Len(input) :
                AfIncrease <= Frame[i].af /\ Frame[i].af <= AfMax
           /\ Frame[1].af = AfIncrease
           /\ \A i \in 2..Len(input) :
                IF Frame[i].position # Frame[i - 1].position
                THEN Frame[i].af = AfIncrease
                ELSE /\ Frame[i].af >= Frame[i - 1].af
                     /\ Frame[i].af # Frame[i - 1].af => Improved(i)
                     /\ Improved(i)
                          => Frame[i].af = Min2(AfMax, Frame[i - 1].af + AfIncrease)

\* the factor has reached its maximum and stays there while the extreme
\* price improves again
C14_Witness ==
    /\ pc = "constructed"
    /\ \E i \in 2..Len(input) :
         /\ Frame[i].position = Frame[i - 1].position
         /\ Frame[i - 1].af = AfMax
         /\ Improved(i)
         /\ Frame[i].af = AfMax

RisingHighs == \A i \in 2..Len(input) : input[i].high > input[i - 1].high

RisingLows == \A i \in 2..Len(input) : input[i].low >= input[i - 1].low

LongThroughout ==
    /\ \A i \in 1..Len(input) : Frame[i].position = "LONG"
    /\ \A i \in 2..Len(input) : Frame[i].sar >= Frame[i - 1].sar

\* C15, as stated: for every input of 10 periods whose highs are strictly
\* increasing, the lows only kept at or below the highs, the position is
\* LONG at every row and sar never decreases from row to row.
C15_RisingHighs ==
    (pc = "constructed" /\ Len(input) = RisePeriods /\ RisingHighs)
        => LongThroughout

\* C15, amended: for every input of 10 periods whose highs are strictly
\* increasing and whose lows never decrease, the position is LONG at every
\* row and sar never decreases from row to row.
C15_RisingHighsAndLows ==
    (pc = "constructed" /\ Len(input) = RisePeriods /\ RisingHighs
       /\ RisingLows)
        => LongThroughout

\* a 10-period series with rising highs and lows never decreasing, the
\* second low equal to the first, has been calculated and its sar has moved up
C15_Witness ==
    /\ pc = "constructed"
    /\ Len(input) = RisePeriods
    /\ RisingHighs
    /\ RisingLows
    /\ input[2].low = input[1].low
    /\ Frame[RisePeriods].sar > Frame[1].sar
    /\ LongThroughout

\* C11: for every formula, getTiSignal returns HOLD, and raises nothing,
\* whenever TiData has fewer rows than the floor of the formula (Parabolic
\* SAR 2, RSI 2, Momentum 9, Chaikin Oscillator 90, TEMA 1, Volume Rate of
\* Change 3), for every length from 0 to the floor - 1.
C11_HoldFloor ==
    (sigpc = "done" /\ Len(indicator.ti_data) < Floor(formula))
        => (sig.raised = "none" /\ sig.signal = HOLD)

\* a TiData one row short of the floor whose last rows would give a signal
\* if the history were one row longer
C11_Witness ==
    /\ sigpc = "done"
    /\ Len(indicator.ti_data) = Floor(formula) - 1
    /\ Len(indicator.ti_data) >= 2
    /\ \E f \in FillRows(formula) :
         Signal(formula, [input_data |-> <<f.close>> \o indicator.input_data,
                          ti_data |-> <<f.v>> \o indicator.ti_data]).signal # HOLD
    /\ sig = Returns(HOLD)

\* the rows older than the last k that an alternative history changes: the
\* first row and the row just before the last k
OlderRows(inst, k) ==
    {j \in {1, Len(inst.ti_data) - k} : 1 <= j /\ j <= Len(inst.ti_data) - k}

\* the instances that agree with inst on their last k rows: one older row
\* holds other values, or the first row is missing
Histories(f, inst, k) ==
    {[input_data |-> [inst.input_data EXCEPT ![j] = r.close],
      ti_data |-> [inst.ti_data EXCEPT ![j] = r.v]] :
        j \in OlderRows(inst, k), r \in FillRows(f) \cup TailRows(f)}
    \cup (IF Len(inst.ti_data) > k
          THEN {[input_data |-> Tail(inst.input_data),
                 ti_data |-> Tail(inst.ti_data)]}
          ELSE {})

\* the signal returned is the one of every instance with the same last k rows
LooksBack(k) ==
    \A other \in Histories(formula, indicator, k) :
        Signal(formula, other) = sig

\* C12, as stated: for every formula the signal depends only on the last two
\* rows: two indicator states that agree on their last two rows yield the
\* same signal.
C12_TwoPeriodLookback ==
    sigpc = "done" => LooksBack(2)

\* C12, amended: the signal depends only on the last two rows for Parabolic
\* SAR, RSI and TEMA, on the last three rows for Volume Rate of Change and on
\* the last 90 rows for the Chaikin Oscillator (Momentum reads its whole
\* TiData).
C12_LookbackPerFormula ==
    sigpc = "done"
        => /\ formula \in {"ParabolicSAR", "RelativeStrengthIndex",
                            "TripleExponentialMovingAverage"} => LooksBack(2)
           /\ formula = "VolumeRateOfChange" => LooksBack(VrcFloor)
           /\ formula = "ChaikinOscillator" => LooksBack(CoMaWindow)

\* a signal other than hold was returned and the history before the last two
\* rows could have been another one
C12_Witness ==
    /\ sigpc = "done"
    /\ formula = "RelativeStrengthIndex"
    /\ sig.signal = SELL
    /\ \E other \in Histories(formula, indicator, 2) :
         other.ti_data # indicator.ti_data /\ Len(other.ti_data) >= 3

\* C25: at every row ep is the maximum high (LONG) or the minimum low (SHORT)
\* over the rows from the one where the current position began, row 0 or the
\* most recent flip row, up to the row itself; position_start_index is that
\* row and never lies after the current one.
C25_ExtremePrice ==
    pc = "constructed"
        => \A i \in 1..Len(input) :
             /\ sar_frame.starts[i] = RunStart(i)
             /\ sar_frame.starts[i] <= i
             /\ Frame[i].position = "LONG"
                  => Frame[i].ep = HighMax(input, RunStart(i), i)
             /\ Frame[i].position = "SHORT"
                  => Frame[i].ep = LowMin(input, RunStart(i), i)

\* a SHORT position that began at a flip is in its second row, and a row
\* before the flip had a lower low than every row since
C25_Witness ==
    /\ pc = "constructed"
    /\ \E i \in 3..Len(input) :
         /\ Frame[i].position = "SHORT"
         /\ RunStart(i) = i - 1
         /\ Frame[i].ep = LowMin(input, i - 1, i)
         /\ LowMin(input, 1, i - 2) < Frame[i].ep

PriorLows(i) == {input[j].low * Scale : j \in Max2(1, i - 2)..(i - 1)}
PriorHighs(i) == {input[j].high * Scale : j \in Max2(1, i - 2)..(i - 1)}

\* C28: for every row after the first whose position is the one of the row
\* before, a LONG sar is at or below each of the (up to two) prior lows and at
\* or below the low of the row, and a SHORT sar is at or above each of the (up
\* to two) prior highs and at or above the high of the row; the same holds
\* for the rounded sar stored in TiData.
C28_StopSide ==
    pc = "constructed"
        => \A i \in 2..Len(input) :
             Frame[i].position = Frame[i - 1].position
                => /\ Frame[i].position = "LONG"
                        => \A p \in PriorLows(i) \cup {input[i].low * Scale} :
                             Frame[i].sar <= p /\ ti.ti_data[i].sar <= p
                   /\ Frame[i].position = "SHORT"
                        => \A p \in PriorHighs(i) \cup {input[i].high * Scale} :
                             Frame[i].sar >= p /\ ti.ti_data[i].sar >= p

\* a SHORT position continues on a row whose high touches the sar, the
\* recurrence having been held back by a prior high
C28_Witness ==
    /\ pc = "constructed"
    /\ \E i \in 3..Len(input) :
         /\ Frame[i].position = "SHORT"
         /\ Frame[i - 1].position = "SHORT"
         /\ Frame[i].sar = input[i].high * Scale
         /\ SarValueRaw(input, i, Frame[i - 1]) < Frame[i].sar

\* C26: computing one row enters _calculateSarRow once, or twice when the row
\* is a flip row (the re-entry returns without a second flip test), so a
\* series of N >= 2 rows costs at most 2N row evaluations and the calculation
\* returns.
C26_BoundedReentry ==
    (pc # "new" /\ Len(input) >= 2)
        => /\ pc = "constructed"
           /\ Len(sar_frame.calls) = Len(input)
           /\ \A i \in 1..Len(input) :
                /\ sar_frame.calls[i] \in {1, 2}
                /\ sar_frame.calls[i] = 2 => i >= 2 /\ StoppedOut(i)
           /\ SeqSum(sar_frame.calls, 1, Len(input)) <= 2 * Len(input)

\* a flip row whose re-initialised sar lies behind the row's own price, so a
\* second flip test would have fired
C26_Witness ==
    /\ pc = "constructed"
    /\ \E i \in 2..Len(input) :
         /\ sar_frame.calls[i] = 2
         /\ SarFlips(input, i, Frame[i].sar, Frame[i])

\* the position of row i is not the one of row i-1
Flipped(i) == i >= 2 /\ Frame[i].position # Frame[i - 1].position

C27_BooleanFlags ==
    (mlpc # "new" /\ \E flag \in {"verbose", "include_close_feature",
                                  "include_volume_feature"} :
                        arg_types[flag] # "bool")
        => /\ mlpc = "ctor_raised"
           /\ raised.kind = "WrongTypeForInputParameter"
           /\ indicators_set = <<>>

\* C23: the three signal codes are buy = -1, hold = 0 and sell = +1, every
\* getTiSignal() call of the walk returns one of them, and every cell of the
\* signals column the walk builds for the feature matrix, the rows the loop
\* never visits included, is -1, 0 or +1.
C23_SignalCodomain ==
    /\ <<BUY, HOLD, SELL>> = <<-1, 0, 1>>
    /\ pc \in {"walking", "returned"}
         => /\ Len(signals) = Len(input)
            /\ \A i \in 1..Len(signals) : signals[i] \in {-1, 0, 1}
            /\ getTiSignal(ti) \in {BUY, HOLD, SELL}

\* a finished walk that emitted a BUY or a SELL and left the last row of the
\* column unvisited
C23_Witness ==
    /\ pc = "returned"
    /\ wi < Len(signals)
    /\ signals[Len(signals)] = 0
    /\ \E i \in 1..wi : signals[i] \in {BUY, SELL}

\* the formulas whose rule compares TiData values directly
ComparesValues ==
    {"ParabolicSAR", "RelativeStrengthIndex", "TripleExponentialMovingAverage",
     "VolumeRateOfChange"}

\* one of the rows the rule of the formula compares holds an undefined value:
\* the last two rows for Parabolic SAR and RSI, the last one for TEMA, the
\* last three for Volume Rate of Change (the floor of each of the four)
ReadsUndefined ==
    \E k \in 1..Min2(Floor(formula), Len(indicator.ti_data)) :
        Iat(indicator.ti_data, k) = NaN

\* C29: for Parabolic SAR, RSI, TEMA and Volume Rate of Change, getTiSignal()
\* returns HOLD whenever one of the TiData values its rule compares is
\* undefined, so a walk-forward view that ends inside the warm-up region
\* gives HOLD.
C29_UndefinedGivesHold ==
    (sigpc = "done" /\ formula \in ComparesValues /\ ReadsUndefined)
        => sig = Returns(HOLD)

\* the oldest of the three rows Volume Rate of Change compares is undefined
\* and the two rows after it rise: with a number in its place, however small,
\* the rule would answer sell
C29_Witness ==
    /\ sigpc = "done"
    /\ formula = "VolumeRateOfChange"
    /\ Len(indicator.ti_data) >= VrcFloor
    /\ Iat(indicator.ti_data, 3) = NaN
    /\ Iat(indicator.ti_data, 2) # NaN
    /\ Iat(indicator.ti_data, 1) > Iat(indicator.ti_data, 2)
    /\ sig = Returns(HOLD)

PeriodBased ==
    {"Momentum", "RelativeStrengthIndex", "TripleExponentialMovingAverage",
     "VolumeRateOfChange"}

\* C22: for Momentum, RSI, TEMA and Volume Rate of Change, a calculation on a
\* series with fewer rows than the period fails with NotEnoughInputData and
\* returns no TiData.
C22_PeriodMinimum ==
    (tipc # "new" /\ ti_class \in PeriodBased /\ Len(ti_input) < ti_params.period)
        => (tipc = "raised" /\ ti_result = NotEnough)

====
